---- MODULE Spec2Model ----
(***************************************************************************)
(* RuleProcessingPublisher (ccx_messaging/publishers/                      *)
(* rule_processing_publisher.py): construction, publish and error, with    *)
(* the Kafka producer they drive.                                          *)
(*                                                                         *)
(* Python values are tagged records.  The field that carries the payload   *)
(* is named after the type, so that values of different types are records  *)
(* with different domains:                                                 *)
(*   [t |-> "none"]                     None                               *)
(*   [t |-> "bool", b |-> TRUE]         True / False                       *)
(*   [t |-> "int", i |-> 42]            an int                             *)
(*   [t |-> "float", f |-> "3.7"]       a float, by its repr               *)
(*   [t |-> "str", s |-> <<"4","2">>]   a str, as its characters           *)
(*   [t |-> "list", l |-> <<...>>]      a list                             *)
(*   [t |-> "dict", items |-> <<..>>]   a dict: its <<key, value>> items   *)
(*                                      in insertion order, keys distinct  *)
(*   [t |-> "bytes", b |-> <<...>>]     bytes (of ASCII text: the chars)   *)
(*   [t |-> "object"]                   any object json cannot serialize   *)
(* The keys of the dicts the program indexes (the input message, the       *)
(* broker configuration) are written as TLA+ strings; the keys of a JSON   *)
(* document (the envelope, the report) are character sequences, as the     *)
(* encoder writes them.                                                    *)
(* A call either returns a value, [ok |-> TRUE, val |-> v], or raises,     *)
(* [ok |-> FALSE, exc |-> "<exception class>"].                            *)
(***************************************************************************)
EXTENDS Integers, Sequences, FiniteSets, TLC

\* ------------------------------------------------------------ Python values

None == [t |-> "none"]
PyInt(i) == [t |-> "int", i |-> i]
PyStr(s) == [t |-> "str", s |-> s]
PyFloat(f) == [t |-> "float", f |-> f]
PyBool(b) == [t |-> "bool", b |-> b]
PyList(l) == [t |-> "list", l |-> l]
PyDict(items) == [t |-> "dict", items |-> items]
PyBytes(b) == [t |-> "bytes", b |-> b]
Object == [t |-> "object"]

\* The absence of a key in a dict literal below: not a Python value.
Absent == [t |-> "absent"]

Ok(v) == [ok |-> TRUE, val |-> v]
Raise(e) == [ok |-> FALSE, exc |-> e]

\* A raised exception with a message and the cause it was raised from.
RaiseFrom(e, text, cause) == [ok |-> FALSE, exc |-> e, text |-> text, cause |-> cause]

HasKey(items, k) == \E j \in DOMAIN items : items[j][1] = k
Lookup(items, k) == items[CHOOSE j \in DOMAIN items : items[j][1] = k][2]

\* d[k] = v on the items of a dict: a key keeps its place, a new key goes last.
SetItem(items, k, v) ==
    IF HasKey(items, k)
    THEN [j \in DOMAIN items |-> IF items[j][1] = k THEN <<k, v>> ELSE items[j]]
    ELSE Append(items, <<k, v>>)

RECURSIVE Update(_, _)
\* a.update(b), on the items of both.
Update(a, b) ==
    IF b = <<>> THEN a ELSE Update(SetItem(a, Head(b)[1], Head(b)[2]), Tail(b))

RECURSIVE Present(_)
\* The pairs whose value is not Absent.
Present(pairs) ==
    IF pairs = <<>> THEN <<>>
    ELSE IF Head(pairs)[2] = Absent THEN Present(Tail(pairs))
    ELSE <<Head(pairs)>> \o Present(Tail(pairs))

\* The dict literal of the pairs, leaving out the keys whose value is Absent.
MkDict(pairs) == PyDict(Present(pairs))

\* bool(v)
Truthy(v) ==
    CASE v.t = "none" -> FALSE
      [] v.t = "bool" -> v.b
      [] v.t = "int" -> v.i # 0
      [] v.t = "str" -> v.s # <<>>
      [] v.t = "list" -> v.l # <<>>
      [] v.t = "dict" -> v.items # <<>>
      [] OTHER -> TRUE

Digits == <<"0", "1", "2", "3", "4", "5", "6", "7", "8", "9">>
IsDigit(c) == \E n \in DOMAIN Digits : Digits[n] = c
DigitValue(c) == (CHOOSE n \in DOMAIN Digits : Digits[n] = c) - 1
IsSpace(c) == c \in {" ", "\t", "\n", "\r"}

RECURSIVE DigitsValue(_, _)
\* The value of the decimal digits cs, read left to right after acc.
DigitsValue(cs, acc) ==
    IF cs = <<>> THEN acc ELSE DigitsValue(Tail(cs), 10 * acc + DigitValue(Head(cs)))

RECURSIVE LStrip(_)
LStrip(cs) == IF cs # <<>> /\ IsSpace(Head(cs)) THEN LStrip(Tail(cs)) ELSE cs

RECURSIVE RStrip(_)
RStrip(cs) ==
    IF cs # <<>> /\ IsSpace(cs[Len(cs)]) THEN RStrip(SubSeq(cs, 1, Len(cs) - 1)) ELSE cs

\* int(str): surrounding whitespace, an optional sign, then decimal digits.
IntOfStr(s) ==
    LET cs == RStrip(LStrip(s))
        signed == cs # <<>> /\ Head(cs) \in {"+", "-"}
        ds == IF signed THEN Tail(cs) ELSE cs
    IN  IF ds # <<>> /\ \A j \in DOMAIN ds : IsDigit(ds[j])
        THEN Ok(IF signed /\ Head(cs) = "-" THEN 0 - DigitsValue(ds, 0)
                ELSE DigitsValue(ds, 0))
        ELSE Raise("ValueError")

\* The floats of the model, by repr, with int() of each: truncation towards
\* zero, OverflowError for an infinity, ValueError for a NaN.
IntOfFloat(f) ==
    CASE f = "3.7" -> Ok(3)
      [] f = "-2.5" -> Ok(0 - 2)
      [] f = "inf" -> Raise("OverflowError")
      [] f = "nan" -> Raise("ValueError")

\* int(v), the builtin.
IntOf(v) ==
    CASE v.t = "int" -> Ok(v.i)
      [] v.t = "bool" -> Ok(IF v.b THEN 1 ELSE 0)
      [] v.t = "str" -> IntOfStr(v.s)
      [] v.t = "float" -> IntOfFloat(v.f)
      [] OTHER -> Raise("TypeError")

\* v[k] for a str key k.
GetItem(v, k) ==
    IF v.t = "dict"
    THEN IF HasKey(v.items, k) THEN Ok(Lookup(v.items, k)) ELSE Raise("KeyError")
    ELSE Raise("TypeError")

\* v.get(k)
Get(v, k) ==
    IF v.t = "dict"
    THEN Ok(IF HasKey(v.items, k) THEN Lookup(v.items, k) ELSE None)
    ELSE Raise("AttributeError")

\* ------------------------------------------------------------ json.loads
\* The decoder, for the JSON texts of the model: objects, arrays, strings
\* without escapes, integers, true, false and null.  The text is cut into
\* tokens, and the tokens drive a stack of the containers being read.

RECURSIVE SkipWs(_, _)
SkipWs(s, i) == IF i <= Len(s) /\ IsSpace(s[i]) THEN SkipWs(s, i + 1) ELSE i

\* Whether the characters of word stand in s from index i on.
StartsWith(s, i, word) ==
    /\ i + Len(word) - 1 <= Len(s)
    /\ \A j \in DOMAIN word : s[i + j - 1] = word[j]

\* A token: a punctuation mark, a scalar value, or text that is no token;
\* next is the index after it.
Punct(c, n) == [k |-> c, next |-> n]
Scalar(v, n) == [k |-> "scalar", v |-> v, next |-> n]
BadToken == [k |-> "bad"]

\* The index of the quote that closes the string opened at s[i], or 0.
ClosingQuote(s, i) ==
    IF \E k \in (i + 1)..Len(s) : s[k] = "\""
    THEN CHOOSE k \in (i + 1)..Len(s) :
             s[k] = "\"" /\ \A o \in (i + 1)..(k - 1) : s[o] # "\""
    ELSE 0

\* The string token whose opening quote is s[i], closed at s[k].
StringToken(s, i, k) ==
    IF k = 0 THEN BadToken ELSE Scalar(PyStr(SubSeq(s, i + 1, k - 1)), k + 1)

RECURSIVE DigitsEnd(_, _)
\* The index after the run of digits that starts at i.
DigitsEnd(s, i) == IF i <= Len(s) /\ IsDigit(s[i]) THEN DigitsEnd(s, i + 1) ELSE i

\* The integer token with the given sign whose digits are s[b..e-1]: 0, or a
\* digit run that does not start with 0.
NumberToken(s, sign, b, e) ==
    IF e = b THEN BadToken ELSE Scalar(PyInt(sign * DigitsValue(SubSeq(s, b, e - 1), 0)), e)

\* The index after the integer part that starts at s[b].
IntPartEnd(s, b) == IF b <= Len(s) /\ s[b] = "0" THEN b + 1 ELSE DigitsEnd(s, b)

\* The token that starts at s[i].
TokenAt(s, i) ==
    CASE s[i] \in {"{", "}", "[", "]", ",", ":"} -> Punct(s[i], i + 1)
      [] s[i] = "\"" -> StringToken(s, i, ClosingQuote(s, i))
      [] s[i] = "-" -> NumberToken(s, 0 - 1, i + 1, IntPartEnd(s, i + 1))
      [] IsDigit(s[i]) -> NumberToken(s, 1, i, IntPartEnd(s, i))
      [] StartsWith(s, i, <<"n", "u", "l", "l">>) -> Scalar(None, i + 4)
      [] StartsWith(s, i, <<"t", "r", "u", "e">>) -> Scalar(PyBool(TRUE), i + 4)
      [] StartsWith(s, i, <<"f", "a", "l", "s", "e">>) -> Scalar(PyBool(FALSE), i + 5)
      [] OTHER -> BadToken

RECURSIVE TokensFrom(_, _, _)
\* The tokens of s from the first non-blank index at or after i on, after
\* toks; a text that cannot be cut ends with the bad token.
TokensFrom(s, i, toks) ==
    IF i > Len(s) THEN toks
    ELSE IF TokenAt(s, i).k = "bad" THEN Append(toks, BadToken)
    ELSE TokensFrom(s, SkipWs(s, TokenAt(s, i).next), Append(toks, TokenAt(s, i)))

Tokens(s) == TokensFrom(s, SkipWs(s, 1), <<>>)

\* The decoder between two tokens: what it expects next, the containers
\* open (the innermost last, a dict with the key whose value is awaited), and
\* the value read once the text is complete.
\*   "value"  a value            "first"  a value or key, or the closing mark
\*   "key"    a key              "colon"  the colon after a key
\*   "next"   a comma or the closing mark
\*   "done"   nothing: the value is read        "error"  the text is no JSON
Decoding(mode, stack, result) == [mode |-> mode, stack |-> stack, result |-> result]
DecodeError == Decoding("error", <<>>, None)

Top(stack) == stack[Len(stack)]
Pop(stack) == SubSeq(stack, 1, Len(stack) - 1)

\* The value v is complete below the containers of stack.
Complete(stack, v) ==
    IF stack = <<>> THEN Decoding("done", <<>>, v)
    ELSE IF Top(stack).t = "list"
    THEN Decoding("next", Append(Pop(stack), PyList(Append(Top(stack).l, v))), None)
    ELSE Decoding("next",
                  Append(Pop(stack),
                         [t |-> "dict", key |-> Top(stack).key,
                          items |-> SetItem(Top(stack).items, Top(stack).key, v)]),
                  None)

\* The container on top of the stack closes: it is a value of the one below.
Close(stack) ==
    IF Top(stack).t = "list" THEN Complete(Pop(stack), Top(stack))
    ELSE Complete(Pop(stack), PyDict(Top(stack).items))

\* A value starts with the token.
StartValue(stack, tok) ==
    CASE tok.k = "scalar" -> Complete(stack, tok.v)
      [] tok.k = "[" -> Decoding("first", Append(stack, PyList(<<>>)), None)
      [] tok.k = "{" ->
           Decoding("first", Append(stack, [t |-> "dict", key |-> <<>>, items |-> <<>>]),
                    None)
      [] OTHER -> DecodeError

\* A key starts with the token.
StartKey(stack, tok) ==
    IF tok.k = "scalar" /\ tok.v.t = "str"
    THEN Decoding("colon", Append(Pop(stack), [Top(stack) EXCEPT !.key = tok.v.s]), None)
    ELSE DecodeError

\* The decoder after the token.
Step(st, tok) ==
    CASE st.mode = "value" -> StartValue(st.stack, tok)
      [] st.mode = "first" /\ Top(st.stack).t = "list" ->
           IF tok.k = "]" THEN Close(st.stack) ELSE StartValue(st.stack, tok)
      [] st.mode = "first" /\ Top(st.stack).t = "dict" ->
           IF tok.k = "}" THEN Close(st.stack) ELSE StartKey(st.stack, tok)
      [] st.mode = "key" -> StartKey(st.stack, tok)
      [] st.mode = "colon" ->
           IF tok.k = ":" THEN Decoding("value", st.stack, None) ELSE DecodeError
      [] st.mode = "next" /\ Top(st.stack).t = "list" ->
           IF tok.k = "," THEN Decoding("value", st.stack, None)
           ELSE IF tok.k = "]" THEN Close(st.stack)
           ELSE DecodeError
      [] st.mode = "next" /\ Top(st.stack).t = "dict" ->
           IF tok.k = "," THEN Decoding("key", st.stack, None)
           ELSE IF tok.k = "}" THEN Close(st.stack)
           ELSE DecodeError
      [] OTHER -> DecodeError

RECURSIVE Decode(_, _)
\* The decoder after the tokens.
Decode(st, toks) == IF toks = <<>> THEN st ELSE Decode(Step(st, Head(toks)), Tail(toks))

\* The decoder after the whole text.
Decoded(s) == Decode(Decoding("value", <<>>, None), Tokens(s))

\* json.loads(v): TypeError unless v is a str, JSONDecodeError unless the whole
\* text is one JSON value.
JsonLoads(v) ==
    IF v.t # "str" THEN Raise("TypeError")
    ELSE IF Decoded(v.s).mode = "done" THEN Ok(Decoded(v.s).result)
    ELSE Raise("JSONDecodeError")

\* ------------------------------------------------------------ json.dumps
\* The encoder with its defaults (", " and ": " separators, ASCII output), for
\* values whose strings hold no character that JSON escapes.

RECURSIVE Serializable(_)
\* Whether json.dumps(v) returns: it raises TypeError on any other object.
Serializable(v) ==
    CASE v.t \in {"none", "bool", "int", "str"} -> TRUE
      [] v.t = "list" -> \A j \in DOMAIN v.l : Serializable(v.l[j])
      [] v.t = "dict" -> \A j \in DOMAIN v.items : Serializable(v.items[j][2])
      [] OTHER -> FALSE

RECURSIVE NatChars(_)
NatChars(n) ==
    IF n < 10 THEN <<Digits[n + 1]>> ELSE NatChars(n \div 10) \o <<Digits[(n % 10) + 1]>>

IntChars(n) == IF n < 0 THEN <<"-">> \o NatChars(0 - n) ELSE NatChars(n)

Quoted(s) == <<"\"">> \o s \o <<"\"">>

RECURSIVE JoinComma(_)
\* The texts of parts, ", " between them.
JoinComma(parts) ==
    IF parts = <<>> THEN <<>>
    ELSE IF Len(parts) = 1 THEN parts[1]
    ELSE parts[1] \o <<",", " ">> \o JoinComma(Tail(parts))

RECURSIVE DumpsText(_)
\* The JSON text of a serializable value.
DumpsText(v) ==
    CASE v.t = "none" -> <<"n", "u", "l", "l">>
      [] v.t = "bool" -> IF v.b THEN <<"t", "r", "u", "e">> ELSE <<"f", "a", "l", "s", "e">>
      [] v.t = "int" -> IntChars(v.i)
      [] v.t = "str" -> Quoted(v.s)
      [] v.t = "list" ->
           <<"[">> \o JoinComma([j \in DOMAIN v.l |-> DumpsText(v.l[j])]) \o <<"]">>
      [] v.t = "dict" ->
           <<"{">>
           \o JoinComma([j \in DOMAIN v.items |->
                  Quoted(v.items[j][1]) \o <<":", " ">> \o DumpsText(v.items[j][2])])
           \o <<"}">>

\* json.dumps(v)
JsonDumps(v) == IF Serializable(v) THEN Ok(PyStr(DumpsText(v))) ELSE Raise("TypeError")

\* str.encode("utf-8"): of ASCII text, the same characters as bytes.
EncodeUtf8(v) == Ok(PyBytes(v.s))

\* ------------------------------------------------------------ bounds and inputs

\* publish calls in one run.
MaxCalls == 3
\* Messages the producer's send buffer holds (queue.buffering.max.messages).
QueueCap == 2

Chars_t1 == <<"t", "1">>
Chars_t2 == <<"t", "2">>
Chars_42 == <<"4", "2">>
Chars_7 == <<" ", "7">>
Chars_abc == <<"a", "b", "c">>
Chars_c1 == <<"c", "1">>
Chars_ts == <<"2", "0", "2", "4", "-", "0", "1", "-", "0", "1">>
Chars_r1 == <<"r", "1">>
Chars_b1 == <<"b", "1", ":", "9", "0", "9", "2">>
Chars_report == <<"{", "\"", "a", "\"", ":", "1", ",", " ", "\"", "b", "\"", ":", " ",
                  "[", "n", "u", "l", "l", "]", "}">>
Chars_notjson == <<"n", "o", "t", " ", "j", "s", "o", "n">>

\* outgoing_topic
Topics == {PyStr(Chars_t1), PyStr(Chars_t2), PyInt(123), None}

\* kafka_broker_config and the inline keyword parameters.
BrokerConfigs ==
    { None,
      PyDict(<<>>),
      PyDict(<< <<"bootstrap.servers", PyStr(Chars_b1)>> >>),
      PyDict(<< <<"client.id", PyStr(Chars_c1)>> >>) }
InlineParams ==
    { <<>>,
      << <<"bootstrap.servers", PyStr(Chars_b1)>> >>,
      << <<"client.id", PyStr(Chars_r1)>> >> }

\* An input message with the given fields; Absent leaves the key out.
MsgOf(org_id, account_number, timestamp, cluster_name, request_id) ==
    MkDict(<<
        <<"identity", MkDict(<<
            <<"identity", MkDict(<<
                <<"internal", MkDict(<< <<"org_id", org_id>> >>)>>,
                <<"account_number", account_number>> >>)>> >>)>>,
        <<"timestamp", timestamp>>,
        <<"cluster_name", cluster_name>>,
        <<"request_id", request_id>> >>)

OrgIds ==
    {PyInt(42), PyStr(Chars_42), PyStr(Chars_abc), None, PyFloat("inf"), Absent}
AccountNumbers ==
    {PyStr(Chars_7), PyFloat("3.7"), PyStr(Chars_abc), PyFloat("nan"), PyList(<<>>), Absent}
Timestamps == {PyStr(Chars_ts), Object, Absent}
ClusterNames == {PyStr(Chars_c1), Absent}
RequestIds == {PyStr(Chars_r1), Absent}

\* The input messages: every combination of the fields, and the messages
\* that are no such record at all.
InputMsgs ==
    UNION { { MsgOf(o, a, ts, cn, rid) : o \in OrgIds, a \in AccountNumbers } :
                <<ts, cn, rid>> \in Timestamps \X ClusterNames \X RequestIds }
    \cup { None, PyDict(<<>>), MkDict(<< <<"identity", PyStr(Chars_abc)>> >>) }

\* response
Responses == {PyStr(Chars_report), PyStr(Chars_notjson), None}

\* What the broker side of an enqueue can do when the send buffer has room.
BrokerOutcomes == {"up", "error"}

\* Exceptions the pipeline hands to error().
PipelineErrors ==
    { [exc |-> "CCXMessagingError", text |-> "Missing expected keys in the input message"],
      [exc |-> "ValueError", text |-> ""] }

\* ------------------------------------------------------------ the producer
\* confluent_kafka.Producer, as the stage and the pipeline around it use it:
\*   config     the configuration it was constructed with
\*   queue      messages accepted into the send buffer and not yet delivered
\*   delivered  messages whose delivery callback has fired
\*   polled     whether poll() or flush() has ever been called on it
\* Producer(config) raises nothing for the configurations of the model,
\* which set no property the client rejects.

NewProducer(config) ==
    [config |-> config, queue |-> 0, delivered |-> 0, polled |-> FALSE]

\* A call of produce(topic, value).
ProduceCall(topic, value) == [method |-> "produce", topic |-> topic, value |-> value]
FlushCall == [method |-> "flush"]

\* The outcome of one call on producer p: produce is rejected with BufferError
\* when the send buffer is full and with KafkaException when the broker side
\* fails, and otherwise queues the message; flush delivers all that is queued.
Apply(p, call, broker) ==
    IF call.method = "produce"
    THEN IF p.queue >= QueueCap THEN [r |-> Raise("BufferError"), p |-> p]
         ELSE IF broker = "error" THEN [r |-> Raise("KafkaException"), p |-> p]
         ELSE [r |-> Ok(None), p |-> [p EXCEPT !.queue = @ + 1]]
    ELSE [r |-> Ok(None),
          p |-> [p EXCEPT !.delivered = @ + p.queue, !.queue = 0, !.polled = TRUE]]

RECURSIVE ApplyAll(_, _, _, _)
\* The calls one after the other, up to the first that raises; made are the
\* calls made so far.
ApplyAll(p, calls, broker, made) ==
    IF calls = <<>> THEN [r |-> Ok(None), p |-> p, made |-> made]
    ELSE LET one == Apply(p, Head(calls), broker)
         IN  IF one.r.ok
             THEN ApplyAll(one.p, Tail(calls), broker, Append(made, Head(calls)))
             ELSE [r |-> one.r, p |-> one.p, made |-> Append(made, Head(calls))]

\* ------------------------------------------------------------ __init__

\* type(self.topic) is not str
TopicIsStr(outgoing_topic) == outgoing_topic.t = "str"

\* kwargs after the optional kwargs.update(kafka_broker_config).
MergedConfig(kafka_broker_config, kwargs) ==
    IF Truthy(kafka_broker_config) THEN Update(kwargs, kafka_broker_config.items)
    ELSE kwargs

\* self.outdata_schema_version
OutdataSchemaVersion == 2

\* InitPublisher with the broker address checked before the topic.
InitPublisher_BrokerFirst(outgoing_topic, kafka_broker_config, kwargs) ==
    LET config == MergedConfig(kafka_broker_config, kwargs)
    IN  IF ~HasKey(config, "bootstrap.servers")
        THEN [r |-> RaiseFrom("KafkaException", "Broker not configured", "none"),
              attrs |-> << <<"topic", outgoing_topic>> >>,
              producers |-> <<>>]
        ELSE IF ~TopicIsStr(outgoing_topic)
        THEN [r |-> RaiseFrom("CCXMessagingError", "outgoing_topic should be a str", "none"),
              attrs |-> << <<"topic", outgoing_topic>> >>,
              producers |-> <<>>]
        ELSE [r |-> Ok(None),
              attrs |-> << <<"topic", outgoing_topic>>,
                           <<"outdata_schema_version", PyInt(OutdataSchemaVersion)>> >>,
              producers |-> <<NewProducer(config)>>]

\* RuleProcessingPublisher(outgoing_topic, kafka_broker_config, **kwargs):
\* what it raises, the attributes set, and the producers it has constructed.
InitPublisher(outgoing_topic, kafka_broker_config, kwargs) ==
    IF ~TopicIsStr(outgoing_topic)
    THEN [r |-> RaiseFrom("CCXMessagingError", "outgoing_topic should be a str", "none"),
          attrs |-> << <<"topic", outgoing_topic>> >>,
          producers |-> <<>>]
    ELSE LET config == MergedConfig(kafka_broker_config, kwargs)
         IN  IF ~HasKey(config, "bootstrap.servers")
             THEN [r |-> RaiseFrom("KafkaException", "Broker not configured", "none"),
                   attrs |-> << <<"topic", outgoing_topic>> >>,
                   producers |-> <<>>]
             ELSE [r |-> Ok(None),
                   attrs |-> << <<"topic", outgoing_topic>>,
                                <<"outdata_schema_version", PyInt(OutdataSchemaVersion)>> >>,
                   producers |-> <<NewProducer(config)>>]

\* ------------------------------------------------------------ publish

\* r, or the CCXMessagingError with the given text raised from it when r
\* raises one of the caught exception classes.
Except(r, caught, text) ==
    IF ~r.ok /\ r.exc \in caught THEN RaiseFrom("CCXMessagingError", text, r.exc) ELSE r

\* a[k1][k2]..., the first failing subscription raising.
RECURSIVE GetPath(_, _)
GetPath(v, keys) ==
    IF keys = <<>> THEN Ok(v)
    ELSE LET r == GetItem(v, Head(keys))
         IN  IF r.ok THEN GetPath(r.val, Tail(keys)) ELSE r

\* int(<the value at the path>)
IntAtPath(v, keys) ==
    LET r == GetPath(v, keys) IN IF r.ok THEN IntOf(r.val) ELSE r

OrgIdPath == <<"identity", "identity", "internal", "org_id">>
AccountNumberPath == <<"identity", "identity", "account_number">>

\* The first try statement.
ExtractOrgId(input_msg) ==
    Except(IntAtPath(input_msg, OrgIdPath),
           {"ValueError", "KeyError", "TypeError"},
           "Error extracting the OrgID")

\* The second try statement.
ExtractAccountNumber(input_msg) ==
    Except(IntAtPath(input_msg, AccountNumberPath),
           {"ValueError", "KeyError", "TypeError"},
           "Error extracting the Account number")

Key_OrgID == <<"O", "r", "g", "I", "D">>
Key_AccountNumber == <<"A", "c", "c", "o", "u", "n", "t", "N", "u", "m", "b", "e", "r">>
Key_ClusterName == <<"C", "l", "u", "s", "t", "e", "r", "N", "a", "m", "e">>
Key_Report == <<"R", "e", "p", "o", "r", "t">>
Key_LastChecked == <<"L", "a", "s", "t", "C", "h", "e", "c", "k", "e", "d">>
Key_Version == <<"V", "e", "r", "s", "i", "o", "n">>
Key_RequestId == <<"R", "e", "q", "u", "e", "s", "t", "I", "d">>

\* BuildOutputMsg with the response put into the envelope as it came.
BuildOutputMsg_RawReport(attrs, input_msg, response, org_id, account_number) ==
    LET msg_timestamp == GetItem(input_msg, "timestamp")
        cluster_name == GetItem(input_msg, "cluster_name")
        request_id == Get(input_msg, "request_id")
    IN  IF ~msg_timestamp.ok THEN msg_timestamp
        ELSE IF ~cluster_name.ok THEN cluster_name
        ELSE IF ~request_id.ok THEN request_id
        ELSE Ok(PyDict(<< <<Key_OrgID, PyInt(org_id)>>,
                          <<Key_AccountNumber, PyInt(account_number)>>,
                          <<Key_ClusterName, cluster_name.val>>,
                          <<Key_Report, response>>,
                          <<Key_LastChecked, msg_timestamp.val>>,
                          <<Key_Version, Lookup(attrs, "outdata_schema_version")>>,
                          <<Key_RequestId, request_id.val>> >>))

\* BuildOutputMsg with the response parsed before the message is read.
BuildOutputMsg_ReportFirst(attrs, input_msg, response, org_id, account_number) ==
    LET report == JsonLoads(response)
        msg_timestamp == GetItem(input_msg, "timestamp")
        cluster_name == GetItem(input_msg, "cluster_name")
        request_id == Get(input_msg, "request_id")
    IN  IF ~report.ok THEN report
        ELSE IF ~msg_timestamp.ok THEN msg_timestamp
        ELSE IF ~cluster_name.ok THEN cluster_name
        ELSE IF ~request_id.ok THEN request_id
        ELSE Ok(PyDict(<< <<Key_OrgID, PyInt(org_id)>>,
                          <<Key_AccountNumber, PyInt(account_number)>>,
                          <<Key_ClusterName, cluster_name.val>>,
                          <<Key_Report, report.val>>,
                          <<Key_LastChecked, msg_timestamp.val>>,
                          <<Key_Version, Lookup(attrs, "outdata_schema_version")>>,
                          <<Key_RequestId, request_id.val>> >>))

\* msg_timestamp and the output_msg dict display, its values evaluated in
\* the order written.
BuildOutputMsg(attrs, input_msg, response, org_id, account_number) ==
    LET msg_timestamp == GetItem(input_msg, "timestamp")
        cluster_name == GetItem(input_msg, "cluster_name")
        report == JsonLoads(response)
        request_id == Get(input_msg, "request_id")
    IN  IF ~msg_timestamp.ok THEN msg_timestamp
        ELSE IF ~cluster_name.ok THEN cluster_name
        ELSE IF ~report.ok THEN report
        ELSE IF ~request_id.ok THEN request_id
        ELSE Ok(PyDict(<< <<Key_OrgID, PyInt(org_id)>>,
                          <<Key_AccountNumber, PyInt(account_number)>>,
                          <<Key_ClusterName, cluster_name.val>>,
                          <<Key_Report, report.val>>,
                          <<Key_LastChecked, msg_timestamp.val>>,
                          <<Key_Version, Lookup(attrs, "outdata_schema_version")>>,
                          <<Key_RequestId, request_id.val>> >>))

\* message.encode("utf-8") of message = json.dumps(output_msg) + "\n"
EncodeMessage(output_msg) ==
    LET text == JsonDumps(output_msg)
    IN  IF text.ok THEN EncodeUtf8(PyStr(text.val.s \o <<"\n">>)) ELSE text

\* ProducerCalls with the producer flushed after every message.
ProducerCalls_Flush(topic, value) == <<ProduceCall(topic, value), FlushCall>>

\* The calls publish makes on the producer for one encoded message.
ProducerCalls(topic, value) == <<ProduceCall(topic, value)>>

\* LogSuccess with the metadata of the message subscripted, not got.
LogSuccess_Subscript(input_msg) == GetItem(input_msg, "topic")

\* The logging calls after produce: a logging call raises nothing, a record
\* that cannot be formatted is reported by the handler.  input_msg.get is
\* evaluated for the arguments of the last.
LogSuccess(input_msg) == Get(input_msg, "topic")

\* The body of the third try statement: what it returns or raises, the
\* producer after it and the calls made on the producer.
TryPublish(attrs, p, input_msg, response, org_id, account_number, broker) ==
    LET output_msg == BuildOutputMsg(attrs, input_msg, response, org_id, account_number)
        value == IF output_msg.ok THEN EncodeMessage(output_msg.val) ELSE output_msg
    IN  IF ~value.ok THEN [r |-> value, p |-> p, made |-> <<>>]
        ELSE LET sent == ApplyAll(p, ProducerCalls(Lookup(attrs, "topic"), value.val),
                                  broker, <<>>)
             IN  IF ~sent.r.ok THEN sent
                 ELSE [sent EXCEPT !.r = LET l == LogSuccess(input_msg)
                                         IN  IF l.ok THEN Ok(None) ELSE l]

\* HandlePublishError without JSONDecodeError among the encoding errors.
HandlePublishError_NoDecode(r) ==
    Except(Except(r, {"KeyError"}, "Missing expected keys in the input message"),
           {"TypeError", "UnicodeEncodeError"},
           "Error encoding the response to publish")

\* The except clauses of the third try statement.
HandlePublishError(r) ==
    Except(Except(r, {"KeyError"}, "Missing expected keys in the input message"),
           {"TypeError", "UnicodeEncodeError", "JSONDecodeError"},
           "Error encoding the response to publish")

\* Publish with the account number extracted before the OrgID.
Publish_AccountFirst(attrs, p, input_msg, response, broker) ==
    LET org_id == ExtractOrgId(input_msg)
        account_number == ExtractAccountNumber(input_msg)
    IN  IF ~account_number.ok THEN [r |-> account_number, p |-> p, made |-> <<>>]
        ELSE IF ~org_id.ok THEN [r |-> org_id, p |-> p, made |-> <<>>]
        ELSE LET body == TryPublish(attrs, p, input_msg, response,
                                    org_id.val, account_number.val, broker)
             IN  [body EXCEPT !.r = HandlePublishError(body.r)]

\* publish(input_msg, response) on the instance with the given attributes
\* and producer p.
Publish(attrs, p, input_msg, response, broker) ==
    LET org_id == ExtractOrgId(input_msg)
        account_number == ExtractAccountNumber(input_msg)
    IN  IF ~org_id.ok THEN [r |-> org_id, p |-> p, made |-> <<>>]
        ELSE IF ~account_number.ok THEN [r |-> account_number, p |-> p, made |-> <<>>]
        ELSE LET body == TryPublish(attrs, p, input_msg, response,
                                    org_id.val, account_number.val, broker)
             IN  [body EXCEPT !.r = HandlePublishError(body.r)]

\* ------------------------------------------------------------ error

\* CCXMessagingError.format(input_msg), of ccx_messaging/error.py: the message
\* rendered with the context of the input message, or the exception raised
\* while rendering it when the message is no record to take the context from.
FormatOutcomes(input_msg) ==
    IF input_msg.t = "dict" THEN {"rendered"}
    ELSE {"rendered", "TypeError", "AttributeError"}

Format(ex, input_msg, rendering) ==
    IF rendering = "rendered"
    THEN Ok([status |-> "Error", cause |-> ex])
    ELSE Raise(rendering)

\* Publisher.error of insights_messaging, the base class: it does nothing.
SuperError(input_msg, ex) == Ok(None)

\* ex, wrapped in a CCXMessagingError unless it is one.
Normalize(ex) ==
    IF ex.exc = "CCXMessagingError" THEN ex
    ELSE [exc |-> "CCXMessagingError", text |-> ex.exc, cause |-> "none"]

\* error(input_msg, ex): what it returns or raises, the records logged and
\* the calls made on the producer.
Error(input_msg, ex, rendering) ==
    LET base == SuperError(input_msg, ex)
        line == Format(Normalize(ex), input_msg, rendering)
    IN  IF ~base.ok THEN [r |-> base, logged |-> <<>>, made |-> <<>>]
        ELSE IF ~line.ok THEN [r |-> line, logged |-> <<>>, made |-> <<>>]
        ELSE [r |-> Ok(None), logged |-> <<line.val>>, made |-> <<>>]

\* Input messages the pipeline hands to error().
ErrorMsgs ==
    { None, PyDict(<<>>),
      MsgOf(PyStr(Chars_42), PyStr(Chars_7), PyStr(Chars_ts), PyStr(Chars_c1), Absent) }

\* ------------------------------------------------------------ state

VARIABLES
    state,      \* "none" before construction, then "usable" or "failed"
    attrs,      \* the attributes of the instance, as <<name, value>> items
    producers,  \* the producers constructed: none or the one of the instance
    last,       \* the call into the stage that is returning: its arguments
                \* and outcome, until the caller has taken them
    calls,      \* publish calls made
    returned    \* publish calls that returned normally

vars == <<state, attrs, producers, last, calls, returned>>

\* Messages the producer has accepted.
Accepted(p) == p.queue + p.delivered

NoCall == [op |-> "none"]

Init ==
    /\ state = "none"
    /\ attrs = <<>>
    /\ producers = <<>>
    /\ last = NoCall
    /\ calls = 0
    /\ returned = 0

\* The stage is constructed and no call into it is in progress.
Idle == state = "usable" /\ last = NoCall

\* The application constructs the stage.
Construct(outgoing_topic, kafka_broker_config, kwargs) ==
    /\ state = "none"
    /\ \E res \in {InitPublisher(outgoing_topic, kafka_broker_config, kwargs)} :
           /\ state' = IF res.r.ok THEN "usable" ELSE "failed"
           /\ attrs' = res.attrs
           /\ producers' = res.producers
           /\ last' = [op |-> "init", outgoing_topic |-> outgoing_topic,
                       kafka_broker_config |-> kafka_broker_config,
                       kwargs |-> kwargs, r |-> res.r]
    /\ UNCHANGED <<calls, returned>>

\* The pipeline calls publish.
CallPublish(input_msg, response, broker) ==
    /\ Idle
    /\ calls < MaxCalls
    /\ \E res \in {Publish(attrs, producers[1], input_msg, response, broker)} :
           /\ producers' = <<res.p>>
           /\ last' = [op |-> "publish", input_msg |-> input_msg,
                       response |-> response, broker |-> broker,
                       full |-> producers[1].queue >= QueueCap,
                       r |-> res.r, made |-> res.made,
                       accepted |-> Accepted(res.p) - Accepted(producers[1])]
           /\ returned' = IF res.r.ok THEN returned + 1 ELSE returned
    /\ calls' = calls + 1
    /\ UNCHANGED <<state, attrs>>

\* The pipeline calls error.
CallError(input_msg, ex, rendering) ==
    /\ Idle
    /\ rendering \in FormatOutcomes(input_msg)
    /\ \E res \in {Error(input_msg, ex, rendering)} :
           last' = [op |-> "error", input_msg |-> input_msg, ex |-> ex,
                    r |-> res.r, logged |-> res.logged, made |-> res.made]
    /\ UNCHANGED <<state, attrs, producers, calls, returned>>

\* The caller takes the outcome of the call: the value returned or the
\* exception raised.
Return ==
    /\ last # NoCall
    /\ last' = NoCall
    /\ UNCHANGED <<state, attrs, producers, calls, returned>>

\* Between two calls the pipeline polls the producer: the delivery callbacks
\* of n queued messages fire.
PipelinePoll(n) ==
    /\ Idle
    /\ n <= producers[1].queue
    /\ producers' = <<[producers[1] EXCEPT !.queue = @ - n, !.delivered = @ + n,
                                           !.polled = TRUE]>>
    /\ UNCHANGED <<state, attrs, last, calls, returned>>

\* The pipeline flushes the producer.
PipelineFlush ==
    /\ Idle
    /\ producers' = <<Apply(producers[1], FlushCall, "up").p>>
    /\ UNCHANGED <<state, attrs, last, calls, returned>>

Next ==
    \/ /\ state = "none"
       /\ \E t \in Topics, c \in BrokerConfigs, k \in InlineParams : Construct(t, c, k)
    \/ /\ Idle
       /\ \E m \in InputMsgs, resp \in Responses, b \in BrokerOutcomes :
              CallPublish(m, resp, b)
    \/ /\ Idle
       /\ \E m \in ErrorMsgs, ex \in PipelineErrors :
              \E f \in FormatOutcomes(m) : CallError(m, ex, f)
    \/ Return
    \/ \E n \in 0..QueueCap : PipelinePoll(n)
    \/ PipelineFlush

Spec == Init /\ [][Next]_vars

\* ------------------------------------------------------------ properties

\* The classifications of the stage's error, by the message it is raised with.
ConfigurationError(r) ==
    ~r.ok /\ r.exc = "CCXMessagingError" /\ r.text = "outgoing_topic should be a str"
OrgIdExtractionError(r) ==
    ~r.ok /\ r.exc = "CCXMessagingError" /\ r.text = "Error extracting the OrgID"
AccountExtractionError(r) ==
    ~r.ok /\ r.exc = "CCXMessagingError" /\ r.text = "Error extracting the Account number"
MissingFieldError(r) ==
    ~r.ok /\ r.exc = "CCXMessagingError"
    /\ r.text = "Missing expected keys in the input message"
EncodingError(r) ==
    ~r.ok /\ r.exc = "CCXMessagingError"
    /\ r.text = "Error encoding the response to publish"

Publishing == last.op = "publish"

\* What is wrong with the identity field at the path, by the value found there.
FieldProblem(input_msg, path) ==
    LET r == GetPath(input_msg, path)
    IN  IF ~r.ok THEN (IF r.exc = "KeyError" THEN "missing" ELSE "wrong type")
        ELSE IF r.val.t \notin {"int", "bool", "float", "str"} THEN "wrong type"
        ELSE IF r.val.t = "str" /\ ~IntOfStr(r.val.s).ok THEN "non-numeric"
        ELSE IF r.val.t = "float" /\ r.val.f = "nan" THEN "non-numeric"
        ELSE "none"

\* Both identity fields of the message are integer-coercible.
IdentityCoercible(input_msg) ==
    IntAtPath(input_msg, OrgIdPath).ok /\ IntAtPath(input_msg, AccountNumberPath).ok

HasField(input_msg, k) == input_msg.t = "dict" /\ HasKey(input_msg.items, k)

\* The produce calls among the calls made.
ProduceCalls(made) == SelectSeq(made, LAMBDA c : c.method = "produce")

\* The call put on the topic of the instance one line of JSON that decodes
\* to the envelope of the message and the response.
EnvelopeOf(call, input_msg, response) ==
    /\ call.method = "produce"
    /\ call.topic = Lookup(attrs, "topic")
    /\ call.value.t = "bytes"
    /\ LET b == call.value.b
           doc == JsonLoads(PyStr(SubSeq(b, 1, Len(b) - 1)))
       IN  /\ b # <<>> /\ b[Len(b)] = "\n"
           /\ doc.ok /\ doc.val.t = "dict"
           /\ [j \in DOMAIN doc.val.items |-> doc.val.items[j][1]] =
                  <<Key_OrgID, Key_AccountNumber, Key_ClusterName, Key_Report,
                    Key_LastChecked, Key_Version, Key_RequestId>>
           /\ Lookup(doc.val.items, Key_OrgID) = PyInt(IntAtPath(input_msg, OrgIdPath).val)
           /\ Lookup(doc.val.items, Key_AccountNumber) =
                  PyInt(IntAtPath(input_msg, AccountNumberPath).val)
           /\ Lookup(doc.val.items, Key_ClusterName) = Lookup(input_msg.items, "cluster_name")
           /\ Lookup(doc.val.items, Key_Report) = JsonLoads(response).val
           /\ Lookup(doc.val.items, Key_LastChecked) = Lookup(input_msg.items, "timestamp")
           /\ Lookup(doc.val.items, Key_Version) = PyInt(2)
           /\ Lookup(doc.val.items, Key_RequestId) =
                  (IF HasKey(input_msg.items, "request_id")
                   THEN Lookup(input_msg.items, "request_id") ELSE None)

\* The message and the response are what C1 asks for.
WellFormedInput ==
    /\ Publishing
    /\ IdentityCoercible(last.input_msg)
    /\ HasField(last.input_msg, "cluster_name")
    /\ HasField(last.input_msg, "timestamp")
    /\ JsonLoads(last.response).ok

\* publish returned normally after exactly one produce, of the envelope.
PublishedEnvelope ==
    /\ last.r.ok
    /\ Len(last.made) = 1
    /\ EnvelopeOf(last.made[1], last.input_msg, last.response)

\* C1 as stated: for every input message with integer-coercible org_id and
\* account_number, a cluster_name and a timestamp, and every response that
\* parses as JSON, publish returns normally after exactly one produce call,
\* on the topic of the instance, of the envelope with OrgID = int(org_id),
\* AccountNumber = int(account_number), ClusterName, Report = the parsed
\* response, LastChecked = timestamp, Version = 2 and RequestId = request_id
\* or null.
C1_PublishesEnvelope == WellFormedInput => PublishedEnvelope

\* The fields passed through the envelope are values JSON can carry.
PassThroughSerializable(input_msg) ==
    /\ Serializable(Lookup(input_msg.items, "cluster_name"))
    /\ Serializable(Lookup(input_msg.items, "timestamp"))
    /\ Serializable(Get(input_msg, "request_id").val)

\* The producer accepts the enqueue of this call: its send buffer has room
\* and the broker side raises nothing.
ProducerAccepts == ~last.full /\ last.broker = "up"

\* C1, amended: the same, for the messages whose cluster_name, timestamp and
\* request_id are JSON-serializable and the calls whose enqueue the producer
\* accepts.
C1_PublishesEnvelopeWhenAccepted ==
    (WellFormedInput /\ PassThroughSerializable(last.input_msg) /\ ProducerAccepts)
        => PublishedEnvelope

\* A publish of a message with a str org_id and no request_id has returned.
C1_Witness ==
    /\ WellFormedInput /\ PassThroughSerializable(last.input_msg) /\ ProducerAccepts
    /\ GetPath(last.input_msg, OrgIdPath).val.t = "str"
    /\ ~HasField(last.input_msg, "request_id")
    /\ last.r.ok

\* C2: publish returns normally or raises the stage's own typed error, for
\* every message, response and outcome of the enqueue; when the producer
\* rejects the enqueue it is that typed error that publish raises.
C2_OnlyTypedErrors ==
    Publishing =>
        /\ last.r.ok \/ last.r.exc = "CCXMessagingError"
        /\ (last.made # <<>> /\ last.accepted = 0) =>
               (~last.r.ok /\ last.r.exc = "CCXMessagingError")

\* C3: error never raises, whatever the exception and the input message.
C3_ErrorNeverRaises == last.op = "error" => last.r.ok

C5_InvalidJsonIsEncodingError ==
    (/\ Publishing
     /\ ~JsonLoads(last.response).ok
     /\ IdentityCoercible(last.input_msg)
     /\ HasField(last.input_msg, "cluster_name")
     /\ HasField(last.input_msg, "timestamp"))
        => (EncodingError(last.r) /\ last.made = <<>>)

\* publish has raised for the response "not json" and a valid message.
C5_Witness ==
    /\ Publishing
    /\ last.response = PyStr(Chars_notjson)
    /\ IdentityCoercible(last.input_msg)
    /\ HasField(last.input_msg, "cluster_name")
    /\ HasField(last.input_msg, "timestamp")
    /\ EncodingError(last.r)

\* C6: construction without a broker address after the merge raises the
\* stage's own error, creates no producer and leaves no usable instance.
C6_NoBrokerIsConfigurationError ==
    (/\ last.op = "init"
     /\ TopicIsStr(last.outgoing_topic)
     /\ ~HasKey(MergedConfig(last.kafka_broker_config, last.kwargs), "bootstrap.servers"))
        => (/\ ~last.r.ok /\ last.r.exc = "CCXMessagingError"
            /\ producers = <<>> /\ state = "failed")

\* C7: construction with a topic that is no str raises the configuration
\* error before any producer is created, whatever the broker configuration.
C7_TopicCheckedFirst ==
    (last.op = "init" /\ last.outgoing_topic.t # "str")
        => (ConfigurationError(last.r) /\ producers = <<>> /\ state = "failed")

\* Construction has failed for the topic 123 and no broker address.
C7_Witness ==
    /\ last.op = "init"
    /\ last.outgoing_topic = PyInt(123)
    /\ ~HasKey(MergedConfig(last.kafka_broker_config, last.kwargs), "bootstrap.servers")
    /\ ConfigurationError(last.r)

\* C8: a message with valid org_id and account_number and no timestamp or
\* no cluster_name makes publish raise the missing-key error, whatever the
\* response, and the producer is never called.
C8_MissingFieldIsMissingKey ==
    (/\ Publishing
     /\ IdentityCoercible(last.input_msg)
     /\ ~HasField(last.input_msg, "timestamp") \/ ~HasField(last.input_msg, "cluster_name"))
        => (MissingFieldError(last.r) /\ last.made = <<>>)

\* publish has raised for a message without cluster_name and a response
\* that is no JSON.
C8_Witness ==
    /\ Publishing
    /\ IdentityCoercible(last.input_msg)
    /\ HasField(last.input_msg, "timestamp")
    /\ ~HasField(last.input_msg, "cluster_name")
    /\ ~JsonLoads(last.response).ok
    /\ MissingFieldError(last.r)

\* C9: the messages the producer has accepted are as many as the publish
\* calls that returned normally; a publish call calls produce at most once,
\* and one that raises leaves no message of its own accepted.
C9_AcceptedEqualsReturned ==
    /\ state = "usable" => Accepted(producers[1]) = returned
    /\ Publishing =>
           /\ Len(ProduceCalls(last.made)) <= 1
           /\ ~last.r.ok => last.accepted = 0

\* A publish call has raised on a rejected enqueue after two that returned.
C9_Witness ==
    /\ Publishing
    /\ returned = 2
    /\ ~last.r.ok
    /\ last.made # <<>>

\* C10: neither publish nor error calls poll or flush, and while nothing
\* has polled or flushed the producer no message is delivered and the send
\* buffer holds one message for every publish call that returned normally.
C10_NoDeliveryWithoutPoll ==
    /\ last.op \in {"publish", "error"} =>
           \A j \in DOMAIN last.made : last.made[j].method \notin {"poll", "flush"}
    /\ (state = "usable" /\ ~producers[1].polled) =>
           /\ producers[1].delivered = 0
           /\ producers[1].queue = returned

\* Two publish calls have returned and nothing has polled: two messages wait.
C10_Witness ==
    /\ Publishing
    /\ last.r.ok
    /\ ~producers[1].polled
    /\ returned = 2
    /\ producers[1].queue = 2

====
